---- MODULE Spec2Model ----
(***************************************************************************)
(* The HTTP gateway of gateway/service.py (GatewayService): six request    *)
(* handlers in front of two RPC backends, the products service (catalog)   *)
(* and the orders service (ledger).                                        *)
(*                                                                         *)
(* The gateway keeps no state between requests; a request runs on one      *)
(* thread and its RPC calls are synchronous.  One action is one request:   *)
(* the handler body, every RPC call it makes, and the translation of the   *)
(* exception that escapes it into a response.  What the backends answer    *)
(* (a value, or a raised exception) is an input of the request.            *)
(*                                                                         *)
(* Text is modelled as a sequence of pieces: "a/b.jpg" built by            *)
(* '{}/{}.jpg'.format(a, b) is <<a, "/", b, ".jpg">>.                        *)
(* An optional value is <<>> (absent) or <<v>> (present).                  *)
(***************************************************************************)
EXTENDS Integers, Sequences, FiniteSets, TLC

\* Bounds of the model.
MaxOrders == 2
MaxLineItems == 3
MaxRequests == 1

ProductIds == {"p1", "p2", "ghost"}
ImageRoots == {"http://img", "/static"}

VARIABLES
    image_root, \* config['PRODUCT_IMAGE_ROOT']
    pc,         \* "idle": waiting for a request; "done": the request was answered
    served,     \* number of requests answered and forgotten
    request,    \* the request being served: [op, arg]
    calls,      \* the RPC calls the request made, in order
    result,     \* what the handler's inner routine returned: <<>> or <<value>>
    raised,     \* the exception that escaped the handler (kind "none": it returned)
    response    \* what the entrypoint answered: [status, error]

vars == <<image_root, pc, served, request, calls, result, raised, response>>

-----------------------------------------------------------------------------
\* Values

SeqsUpTo(S, n) == UNION {[1..k -> S] : k \in 0..n}

Min(S) == CHOOSE x \in S : \A y \in S : x <= y

Exc(kind, detail) == [kind |-> kind, detail |-> detail]
NoExc == Exc("none", <<>>)

Returned(v) == [exc |-> NoExc, value |-> <<v>>]
Raised(kind) == [exc |-> Exc(kind, <<>>), value |-> <<>>]

\* A product as the products service returns it.
Product(p) == [id |-> p, title |-> <<"Title of ", p>>]

\* A line item of a stored order, and of an order-creation payload.
OrderDetail(k, j, p) ==
    [id |-> 10 * k + j, product_id |-> p, price |-> "9.99", quantity |-> j]
NewOrderDetail(j, p) == [product_id |-> p, price |-> "9.99", quantity |-> j]

\* The stored order number k whose line items reference the product ids pids.
Order(k, pids) ==
    [id |-> k,
     order_details |-> [j \in 1..Len(pids) |-> OrderDetail(k, j, pids[j])]]

OrderData(pids) ==
    [order_details |-> [j \in 1..Len(pids) |-> NewOrderDetail(j, pids[j])]]

ProductIdSeqs == SeqsUpTo(ProductIds, MaxLineItems)

\* The sequences of at most n sequences of product ids, of total length at most t.
RECURSIVE Shapes(_, _)
Shapes(n, t) ==
    IF n = 0
    THEN {<<>>}
    ELSE {<<>>} \cup
         UNION {{<<s>> \o rest : rest \in Shapes(n - 1, t - Len(s))} :
                   s \in SeqsUpTo(ProductIds, t)}

\* The lists of orders the ledger can hold: at most MaxOrders orders with at
\* most MaxLineItems line items in all.
OrderLists ==
    {[k \in 1..Len(ss) |-> Order(k, ss[k])] : ss \in Shapes(MaxOrders, MaxLineItems)}

\* The lists of products the catalog can answer: any products, each id once.
ProductLists ==
    {[i \in 1..Len(ps) |-> Product(ps[i])] :
        ps \in {s \in SeqsUpTo(ProductIds, Cardinality(ProductIds)) :
                   \A i, j \in 1..Len(s) : s[i] = s[j] => i = j}}

\* Request bodies: text that is not JSON, JSON that violates the schema, or
\* JSON that the schema loads into data.
Malformed == [kind |-> "malformed", data |-> <<>>]
Invalid == [kind |-> "invalid", data |-> <<>>]
Valid(data) == [kind |-> "valid", data |-> <<data>>]

ProductBodies == {Malformed, Invalid} \cup {Valid(Product(p)) : p \in ProductIds}
OrderBodies == {Malformed, Invalid} \cup {Valid(OrderData(s)) : s \in ProductIdSeqs}

-----------------------------------------------------------------------------
\* What the backends can answer

ProductsFaults == {"ProductNotFound", "RemoteError"}
OrdersFaults == {"OrderNotFound", "RemoteError"}

ProductsFailures == {Raised(k) : k \in ProductsFaults}
OrdersFailures == {Raised(k) : k \in OrdersFaults}

GetProductOutcomes == {Returned(Product(p)) : p \in ProductIds} \cup ProductsFailures
CreateProductOutcomes == {Returned("ok")} \cup ProductsFailures
ListProductsOutcomes == {Returned(ps) : ps \in ProductLists} \cup ProductsFailures
ListOrdersOutcomes == {Returned(os) : os \in OrderLists} \cup OrdersFailures
GetOrderOutcomes ==
    {Returned(Order(k, s)) : k \in 1..MaxOrders, s \in ProductIdSeqs} \cup OrdersFailures
CreateOrderOutcomes == {Returned([id |-> k]) : k \in 1..MaxOrders} \cup OrdersFailures

Call(service, method, args, outcome) ==
    [service |-> service, method |-> method, args |-> args, outcome |-> outcome]

\* What a handler body did: the calls made, the exception raised, the value returned.
Ran(cs, exc, value) == [calls |-> cs, exc |-> exc, value |-> value]

-----------------------------------------------------------------------------
\* The inner routines of GatewayService

\* schema.loads(request.get_data(as_text=True)).data: ValueError for text that
\* is not JSON, ValidationError for JSON the strict schema rejects.
schema_loads(body) ==
    CASE body.kind = "malformed" -> [exc |-> Exc("ValueError", <<>>), data |-> <<>>]
      [] body.kind = "invalid" -> [exc |-> Exc("ValidationError", <<>>), data |-> <<>>]
      [] OTHER -> [exc |-> NoExc, data |-> body.data]

\* The ids of an order's line items with the repetitions removed (each id at
\* its first place): what a deduplicating collection would pass on.
distinct_product_ids_from_order(order) ==
    LET ids == [i \in 1..Len(order.order_details) |->
                   order.order_details[i].product_id]
        firsts == {i \in DOMAIN ids : \A j \in 1..(i - 1) : ids[j] # ids[i]}
        place(n) == CHOOSE i \in firsts : Cardinality({j \in firsts : j < i}) = n - 1
    IN  [n \in 1..Cardinality(firsts) |-> ids[place(n)]]

_get_product_ids_from_order(order) ==
    [i \in 1..Len(order.order_details) |-> order.order_details[i].product_id]

RECURSIVE _get_product_ids_from_orders(_)
_get_product_ids_from_orders(orders) ==
    IF orders = <<>>
    THEN <<>>
    ELSE _get_product_ids_from_order(Head(orders))
            \o _get_product_ids_from_orders(Tail(orders))

\* self.products_rpc.list(product_ids=product_ids), answered by outcome.
_list_products(product_ids, outcome) ==
    Call("products", "list", product_ids, outcome)

\* Every key mapped to the first product of the answer.
product_map_first(products) ==
    [p \in {products[i].id : i \in DOMAIN products} |-> products[1]]

\* {prod['id']: prod for prod in products}: a later product replaces an
\* earlier one of the same id.
product_map(products) ==
    [p \in {products[i].id : i \in DOMAIN products} |->
        products[CHOOSE i \in DOMAIN products :
                    /\ products[i].id = p
                    /\ \A j \in DOMAIN products : products[j].id = p => j <= i]]

\* {prod['id'] for prod in products}
valid_product_ids(products) == {products[i].id : i \in DOMAIN products}

\* '{}/{}.jpg'.format(image_root, product_id)
image_url(root, product_id) == <<root, "/", product_id, ".jpg">>

\* product_map.get(product_id): a missing key fills in None instead of raising.
fill_order_details_null(order, pmap) ==
    LET items == order.order_details
        filled(i) ==
            [product |-> IF items[i].product_id \in DOMAIN pmap
                         THEN pmap[items[i].product_id] ELSE "None",
             image |-> <<image_root, "/", items[i].product_id, ".jpg">>] @@ items[i]
    IN  [exc |-> NoExc,
         order |-> [order EXCEPT !.order_details =
                       [i \in DOMAIN items |-> filled(i)]]]

\* The line items filled from the last to the first and returned in that order.
fill_order_details_reversed(order, pmap) ==
    LET items == [i \in DOMAIN order.order_details |->
                     order.order_details[Len(order.order_details) + 1 - i]]
        missing == {i \in DOMAIN items : items[i].product_id \notin DOMAIN pmap}
        filled(i) ==
            [product |-> pmap[items[i].product_id],
             image |-> <<image_root, "/", items[i].product_id, ".jpg">>] @@ items[i]
    IN  [exc |-> IF missing = {}
                 THEN NoExc
                 ELSE Exc("KeyError", <<items[Min(missing)].product_id>>),
         order |-> [order EXCEPT !.order_details =
                       [i \in DOMAIN items |->
                           IF missing = {} THEN filled(i) ELSE items[i]]]]

\* The loop over order['order_details']: item['product'] and item['image']
\* are set item by item, in place; product_map[product_id] raises KeyError at
\* the first item whose product id is no key, leaving the later items as
\* they were.
_fill_order_details_with_product(order, pmap) ==
    LET items == order.order_details
        missing == {i \in DOMAIN items : items[i].product_id \notin DOMAIN pmap}
        stop == IF missing = {} THEN Len(items) + 1 ELSE Min(missing)
        filled(i) ==
            [product |-> pmap[items[i].product_id],
             image |-> image_url(image_root, items[i].product_id)] @@ items[i]
    IN  [exc |-> IF missing = {}
                 THEN NoExc
                 ELSE Exc("KeyError", <<items[stop].product_id>>),
         order |-> [order EXCEPT !.order_details =
                       [i \in DOMAIN items |->
                           IF i < stop THEN filled(i) ELSE items[i]]]]

_get_order(order_id, ledger, catalog) ==
    LET fetch == Call("orders", "get_order", order_id, ledger)
    IN  IF ledger.exc.kind # "none"
        THEN Ran(<<fetch>>, ledger.exc, <<>>)
        ELSE
        LET order == ledger.value[1]
            order_product_ids == _get_product_ids_from_order(order)
            lookup == _list_products(order_product_ids, catalog)
        IN  IF catalog.exc.kind # "none"
            THEN Ran(<<fetch, lookup>>, catalog.exc, <<>>)
            ELSE
            LET fill == _fill_order_details_with_product(
                            order, product_map(catalog.value[1]))
            IN  IF fill.exc.kind # "none"
                THEN Ran(<<fetch, lookup>>, fill.exc, <<>>)
                ELSE Ran(<<fetch, lookup>>, NoExc, <<fill.order>>)

\* One product lookup for each order instead of one for all of them.
get_all_orders_lookup_each(ledger, catalog) ==
    LET fetch == Call("orders", "list_orders", <<>>, ledger)
    IN  IF ledger.exc.kind # "none"
        THEN Ran(<<fetch>>, ledger.exc, <<>>)
        ELSE
        LET orders == ledger.value[1]
            lookups == [k \in DOMAIN orders |->
                           Call("products", "list",
                                [i \in 1..Len(orders[k].order_details) |->
                                    orders[k].order_details[i].product_id],
                                catalog)]
        IN  IF catalog.exc.kind # "none"
            THEN Ran(<<fetch>> \o lookups, catalog.exc, <<>>)
            ELSE
            LET pmap == [p \in {catalog.value[1][i].id : i \in DOMAIN catalog.value[1]} |->
                            CHOOSE prod \in {catalog.value[1][i] : i \in DOMAIN catalog.value[1]} :
                                prod.id = p]
                failing == {k \in DOMAIN orders :
                               \E i \in DOMAIN orders[k].order_details :
                                   orders[k].order_details[i].product_id \notin DOMAIN pmap}
            IN  IF failing # {}
                THEN Ran(<<fetch>> \o lookups, Exc("KeyError", <<>>), <<>>)
                ELSE Ran(<<fetch>> \o lookups, NoExc,
                         <<[k \in DOMAIN orders |->
                              [orders[k] EXCEPT !.order_details =
                                  [i \in DOMAIN orders[k].order_details |->
                                      [product |-> pmap[orders[k].order_details[i].product_id],
                                       image |-> <<image_root, "/",
                                                   orders[k].order_details[i].product_id,
                                                   ".jpg">>]
                                      @@ orders[k].order_details[i]]]]>>)

\* order.update(<the order itself, filled>) changes nothing more; the loop
\* ends at the first order whose filling raises.
_get_all_orders(ledger, catalog) ==
    LET fetch == Call("orders", "list_orders", <<>>, ledger)
    IN  IF ledger.exc.kind # "none"
        THEN Ran(<<fetch>>, ledger.exc, <<>>)
        ELSE
        LET orders == ledger.value[1]
            order_product_ids == _get_product_ids_from_orders(orders)
            lookup == _list_products(order_product_ids, catalog)
        IN  IF catalog.exc.kind # "none"
            THEN Ran(<<fetch, lookup>>, catalog.exc, <<>>)
            ELSE
            LET pmap == product_map(catalog.value[1])
                fill == [k \in DOMAIN orders |->
                            _fill_order_details_with_product(orders[k], pmap)]
                failing == {k \in DOMAIN orders : fill[k].exc.kind # "none"}
            IN  IF failing # {}
                THEN Ran(<<fetch, lookup>>, fill[Min(failing)].exc, <<>>)
                ELSE Ran(<<fetch, lookup>>, NoExc,
                         <<[k \in DOMAIN orders |-> fill[k].order]>>)

\* The last unknown product id reported instead of the first.
create_order_reports_last(order_data, catalog, ledger) ==
    LET items == order_data.order_details
        lookup == Call("products", "list",
                       [i \in DOMAIN items |-> items[i].product_id], catalog)
    IN  IF catalog.exc.kind # "none"
        THEN Ran(<<lookup>>, catalog.exc, <<>>)
        ELSE
        LET valid == {catalog.value[1][i].id : i \in DOMAIN catalog.value[1]}
            unknown == {i \in DOMAIN items : items[i].product_id \notin valid}
        IN  IF unknown # {}
            THEN Ran(<<lookup>>,
                     Exc("ProductNotFound",
                         <<"Product Id ",
                           items[CHOOSE i \in unknown : \A j \in unknown : j <= i].product_id>>),
                     <<>>)
            ELSE Ran(<<lookup, Call("orders", "create_order", items, ledger)>>,
                     ledger.exc, ledger.value)

\* The order created first and its product ids checked afterwards.
create_order_checks_late(order_data, catalog, ledger) ==
    LET items == order_data.order_details
        lookup == Call("products", "list",
                       [i \in DOMAIN items |-> items[i].product_id], catalog)
        create == Call("orders", "create_order", items, ledger)
    IN  IF ledger.exc.kind # "none"
        THEN Ran(<<create>>, ledger.exc, <<>>)
        ELSE IF catalog.exc.kind # "none"
        THEN Ran(<<create, lookup>>, catalog.exc, <<>>)
        ELSE
        LET valid == {catalog.value[1][i].id : i \in DOMAIN catalog.value[1]}
            unknown == {i \in DOMAIN items : items[i].product_id \notin valid}
        IN  IF unknown # {}
            THEN Ran(<<create, lookup>>,
                     Exc("ProductNotFound",
                         <<"Product Id ", items[Min(unknown)].product_id>>),
                     <<>>)
            ELSE Ran(<<create, lookup>>, NoExc, ledger.value)

\* CreateOrderSchema().dump(order_data).data['order_details'] is passed to
\* the ledger: the line items of the payload.
_create_order(order_data, catalog, ledger) ==
    LET items == order_data.order_details
        order_product_ids == _get_product_ids_from_order(order_data)
        lookup == _list_products(order_product_ids, catalog)
    IN  IF catalog.exc.kind # "none"
        THEN Ran(<<lookup>>, catalog.exc, <<>>)
        ELSE
        LET valid == valid_product_ids(catalog.value[1])
            unknown == {i \in DOMAIN items : items[i].product_id \notin valid}
        IN  IF unknown # {}
            THEN Ran(<<lookup>>,
                     Exc("ProductNotFound",
                         <<"Product Id ", items[Min(unknown)].product_id>>),
                     <<>>)
            ELSE Ran(<<lookup, Call("orders", "create_order", items, ledger)>>,
                     ledger.exc, ledger.value)

-----------------------------------------------------------------------------
\* The handler bodies

get_product_body(product_id, catalog) ==
    Ran(<<Call("products", "get", product_id, catalog)>>, catalog.exc, catalog.value)

remove_product_body(product_id, catalog) ==
    Ran(<<Call("products", "delete", product_id, catalog)>>, catalog.exc, catalog.value)

\* The handler without its try/except: the ValueError of the load escapes.
create_product_body_uncaught(body, catalog) ==
    IF body.kind = "malformed"
    THEN Ran(<<>>, Exc("ValueError", <<>>), <<>>)
    ELSE IF body.kind = "invalid"
    THEN Ran(<<>>, Exc("ValidationError", <<>>), <<>>)
    ELSE Ran(<<Call("products", "create", body.data[1], catalog)>>,
             catalog.exc,
             IF catalog.exc.kind = "none" THEN <<[id |-> body.data[1].id]>> ELSE <<>>)

create_product_body(body, catalog) ==
    LET loaded == schema_loads(body)
    IN  IF loaded.exc.kind = "ValueError"
        THEN Ran(<<>>, Exc("BadRequest", <<"Invalid json: ", "ValueError">>), <<>>)
        ELSE IF loaded.exc.kind # "none"
        THEN Ran(<<>>, loaded.exc, <<>>)
        ELSE Ran(<<Call("products", "create", loaded.data[1], catalog)>>,
                 catalog.exc,
                 IF catalog.exc.kind = "none"
                 THEN <<[id |-> loaded.data[1].id]>> ELSE <<>>)

list_orders_body(ledger, catalog) == _get_all_orders(ledger, catalog)

get_order_body(order_id, ledger, catalog) == _get_order(order_id, ledger, catalog)

create_order_body(body, catalog, ledger) ==
    LET loaded == schema_loads(body)
    IN  IF loaded.exc.kind = "ValueError"
        THEN Ran(<<>>, Exc("BadRequest", <<"Invalid json: ", "ValueError">>), <<>>)
        ELSE IF loaded.exc.kind # "none"
        THEN Ran(<<>>, loaded.exc, <<>>)
        ELSE _create_order(loaded.data[1], catalog, ledger)

-----------------------------------------------------------------------------
\* The entrypoints

\* The same expected_exceptions on every entrypoint.
expected_exceptions_everywhere(op) ==
    {"ProductNotFound", "OrderNotFound", "ValidationError", "BadRequest"}

\* expected_exceptions of each @http decorator.
expected_exceptions(op) ==
    CASE op = "get_product" -> {"ProductNotFound"}
      [] op = "remove_product" -> {"ProductNotFound"}
      [] op = "create_product" -> {"ValidationError", "BadRequest"}
      [] op = "list_orders" -> {}
      [] op = "get_order" -> {"OrderNotFound"}
      [] op = "create_order" -> {"ValidationError", "ProductNotFound", "BadRequest"}

\* The entrypoint's answer: an expected exception becomes a client error of
\* its kind, any other one a server fault without detail.
response_from_exception(exc, expected) ==
    IF exc.kind = "none"
    THEN [status |-> "ok", error |-> "none"]
    ELSE IF exc.kind \in expected
    THEN [status |-> "client_error", error |-> exc.kind]
    ELSE [status |-> "server_fault", error |-> "UNEXPECTED_ERROR"]

\* The state in which the request op(arg), whose handler body did ran, is answered.
Answered(op, arg, ran) ==
    [request |-> [op |-> op, arg |-> arg],
     calls |-> ran.calls,
     result |-> ran.value,
     raised |-> ran.exc,
     response |-> response_from_exception(ran.exc, expected_exceptions(op))]

get_product ==
    /\ pc = "idle"
    /\ \E product_id \in ProductIds, catalog \in GetProductOutcomes :
        LET a == Answered("get_product", product_id,
                          get_product_body(product_id, catalog))
        IN  /\ request' = a.request
            /\ calls' = a.calls
            /\ result' = a.result
            /\ raised' = a.raised
            /\ response' = a.response
    /\ pc' = "done"
    /\ UNCHANGED <<image_root, served>>

remove_product ==
    /\ pc = "idle"
    /\ \E product_id \in ProductIds, catalog \in GetProductOutcomes :
        LET a == Answered("remove_product", product_id,
                          remove_product_body(product_id, catalog))
        IN  /\ request' = a.request
            /\ calls' = a.calls
            /\ result' = a.result
            /\ raised' = a.raised
            /\ response' = a.response
    /\ pc' = "done"
    /\ UNCHANGED <<image_root, served>>

create_product ==
    /\ pc = "idle"
    /\ \E body \in ProductBodies, catalog \in CreateProductOutcomes :
        LET a == Answered("create_product", body,
                          create_product_body(body, catalog))
        IN  /\ request' = a.request
            /\ calls' = a.calls
            /\ result' = a.result
            /\ raised' = a.raised
            /\ response' = a.response
    /\ pc' = "done"
    /\ UNCHANGED <<image_root, served>>

list_orders ==
    /\ pc = "idle"
    /\ \E ledger \in ListOrdersOutcomes, catalog \in ListProductsOutcomes :
        LET a == Answered("list_orders", <<>>,
                          list_orders_body(ledger, catalog))
        IN  /\ request' = a.request
            /\ calls' = a.calls
            /\ result' = a.result
            /\ raised' = a.raised
            /\ response' = a.response
    /\ pc' = "done"
    /\ UNCHANGED <<image_root, served>>

get_order ==
    /\ pc = "idle"
    /\ \E order_id \in 1..MaxOrders, ledger \in GetOrderOutcomes,
          catalog \in ListProductsOutcomes :
        LET a == Answered("get_order", order_id,
                          get_order_body(order_id, ledger, catalog))
        IN  /\ request' = a.request
            /\ calls' = a.calls
            /\ result' = a.result
            /\ raised' = a.raised
            /\ response' = a.response
    /\ pc' = "done"
    /\ UNCHANGED <<image_root, served>>

create_order ==
    /\ pc = "idle"
    /\ \E body \in OrderBodies, catalog \in ListProductsOutcomes,
          ledger \in CreateOrderOutcomes :
        LET a == Answered("create_order", body,
                          create_order_body(body, catalog, ledger))
        IN  /\ request' = a.request
            /\ calls' = a.calls
            /\ result' = a.result
            /\ raised' = a.raised
            /\ response' = a.response
    /\ pc' = "done"
    /\ UNCHANGED <<image_root, served>>

\* The request is over; nothing of it is kept.
NextRequest ==
    /\ pc = "done"
    /\ served < MaxRequests
    /\ pc' = "idle"
    /\ served' = served + 1
    /\ request' = [op |-> "none", arg |-> <<>>]
    /\ calls' = <<>>
    /\ result' = <<>>
    /\ raised' = NoExc
    /\ response' = [status |-> "none", error |-> "none"]
    /\ UNCHANGED image_root

Init ==
    /\ image_root \in ImageRoots
    /\ pc = "idle"
    /\ served = 0
    /\ request = [op |-> "none", arg |-> <<>>]
    /\ calls = <<>>
    /\ result = <<>>
    /\ raised = NoExc
    /\ response = [status |-> "none", error |-> "none"]

Next ==
    \/ get_product
    \/ remove_product
    \/ create_product
    \/ list_orders
    \/ get_order
    \/ create_order
    \/ NextRequest

Spec == Init /\ [][Next]_vars

-----------------------------------------------------------------------------
\* Properties

Done(ops) == pc = "done" /\ request.op \in ops

Enriching == {"list_orders", "get_order"}

IsLookup(c) == c.service = "products" /\ c.method = "list"
IsLedgerCreate(c) == c.service = "orders" /\ c.method = "create_order"
Lookups == {n \in DOMAIN calls : IsLookup(calls[n])}

\* The ledger answered the fetch of an enriching request.
Fetched == Done(Enriching) /\ calls[1].outcome.exc.kind = "none"

\* The orders the ledger answered, and the orders the enrichment returned.
FetchedOrders ==
    IF request.op = "list_orders"
    THEN calls[1].outcome.value[1]
    ELSE <<calls[1].outcome.value[1]>>
EnrichedOrders == IF request.op = "list_orders" THEN result[1] ELSE <<result[1]>>

\* The places (order, line item) of the fetched orders.
Places ==
    {<<k, j>> \in (1..Len(FetchedOrders)) \X (1..MaxLineItems + 1) :
        j <= Len(FetchedOrders[k].order_details)}
ReferencedIds == {FetchedOrders[pl[1]].order_details[pl[2]].product_id : pl \in Places}

\* The catalog answered the lookup of an enriching request.
LookedUp == Fetched /\ Len(calls) = 2 /\ calls[2].outcome.exc.kind = "none"
CatalogProducts(n) == {calls[n].outcome.value[1][i] : i \in DOMAIN calls[n].outcome.value[1]}
CatalogIds(n) == {prod.id : prod \in CatalogProducts(n)}

Enriched == LookedUp /\ raised.kind = "none"

\* A create-order request whose body loaded and whose lookup the catalog answered.
Validated ==
    /\ Done({"create_order"})
    /\ request.arg.kind = "valid"
    /\ Len(calls) >= 1
    /\ IsLookup(calls[1])
    /\ calls[1].outcome.exc.kind = "none"
PayloadItems == request.arg.data[1].order_details
UnknownItems == {i \in DOMAIN PayloadItems : PayloadItems[i].product_id \notin CatalogIds(1)}

\* C1: order validation succeeds (the order goes on to the ledger) when every
\* line item's product id is among the ids the catalog lookup returned, the
\* empty order included; otherwise it fails with ProductNotFound naming the
\* product id of the first line item, in payload order, whose id was not returned.
C1_ValidationReportsFirstUnknown ==
    Validated =>
        IF UnknownItems = {}
        THEN /\ Len(calls) = 2
             /\ IsLedgerCreate(calls[2])
             /\ raised = calls[2].outcome.exc
        ELSE \E i \in UnknownItems :
                /\ \A j \in 1..(i - 1) : j \notin UnknownItems
                /\ raised = Exc("ProductNotFound",
                                <<"Product Id ", PayloadItems[i].product_id>>)

\* Two different unknown ids in one payload, the first one reported.
C1_Witness ==
    /\ Validated
    /\ raised.kind = "ProductNotFound"
    /\ \E i, j \in UnknownItems :
          /\ i < j
          /\ PayloadItems[i].product_id # PayloadItems[j].product_id
          /\ raised.detail = <<"Product Id ", PayloadItems[i].product_id>>

\* C2: the ledger's create_order is called only in a create-order request,
\* after the catalog lookup returned and every line item's id was among the
\* returned ones; a request that fails with ProductNotFound made no ledger call.
C2_LedgerCalledOnlyAfterValidation ==
    pc = "done" =>
        /\ \A n \in DOMAIN calls :
              IsLedgerCreate(calls[n]) =>
                  /\ request.op = "create_order"
                  /\ n = 2
                  /\ IsLookup(calls[1])
                  /\ calls[1].outcome.exc.kind = "none"
                  /\ UnknownItems = {}
        /\ (request.op = "create_order" /\ raised.kind = "ProductNotFound") =>
              \A n \in DOMAIN calls : calls[n].service # "orders"

\* An order naming a product the catalog did not return: refused, ledger untouched.
C2_Witness ==
    /\ Validated
    /\ UnknownItems # {}
    /\ raised.kind = "ProductNotFound"
    /\ calls = <<calls[1]>>

\* C3: in create-product and create-order a body that is not JSON fails with
\* BadRequest and a body that is JSON but violates the schema fails with
\* ValidationError; the two are reported as different client errors, never
\* as a server fault, and no backend call is made in either case.
C3_BodyFailuresAreDistinctClientErrors ==
    Done({"create_product", "create_order"}) =>
        /\ request.arg.kind = "malformed" =>
              /\ raised.kind = "BadRequest"
              /\ response = [status |-> "client_error", error |-> "BadRequest"]
              /\ calls = <<>>
        /\ request.arg.kind = "invalid" =>
              /\ raised.kind = "ValidationError"
              /\ response = [status |-> "client_error", error |-> "ValidationError"]
              /\ calls = <<>>

C3_Witness ==
    /\ Done({"create_product"})
    /\ request.arg.kind = "malformed"
    /\ response.status = "client_error"
    /\ response.error = "BadRequest"

\* The failure mapping of each operation as the design states it.
StatedMapping(op) ==
    CASE op \in {"get_product", "remove_product"} -> {"ProductNotFound"}
      [] op = "create_product" -> {"ValidationError", "BadRequest"}
      [] op = "get_order" -> {"OrderNotFound"}
      [] op = "create_order" -> {"ValidationError", "BadRequest", "ProductNotFound"}
      [] op = "list_orders" -> {}

\* C4: a failure becomes a client error exactly when its kind is in the
\* operation's failure mapping; every other failure, a taxonomy kind raised
\* in an operation that does not map it included, is a server fault.
C4_OnlyMappedFailuresAreClientErrors ==
    pc = "done" =>
        /\ response.status = "client_error" <=> raised.kind \in StatedMapping(request.op)
        /\ response.status = "client_error" => response.error = raised.kind
        /\ (raised.kind # "none" /\ raised.kind \notin StatedMapping(request.op)) =>
              response = [status |-> "server_fault", error |-> "UNEXPECTED_ERROR"]
        /\ raised.kind = "none" <=> response.status = "ok"

\* ProductNotFound raised by the catalog during get-order: a server fault.
C4_Witness ==
    /\ Done({"get_order"})
    /\ raised.kind = "ProductNotFound"
    /\ response.status = "server_fault"

\* C5: an enrichment makes at most one products lookup, after the ledger
\* fetch, whatever the number of orders and of line items.
C5_AtMostOneLookup ==
    Done(Enriching) =>
        /\ Cardinality(Lookups) <= 1
        /\ \A n \in Lookups :
              /\ n = 2
              /\ calls[1].service = "orders"
              /\ calls[1].outcome.exc.kind = "none"

\* Two orders, three line items, one lookup.
C5_Witness ==
    /\ Fetched
    /\ request.op = "list_orders"
    /\ Len(FetchedOrders) = 2
    /\ Cardinality(Places) = 3
    /\ Cardinality(Lookups) = 1

\* C6: when the orders being enriched reference no product id (no orders,
\* or only orders without line items) the enrichment makes no catalog call
\* and returns the orders unchanged.
C6_NoLookupWhenNothingReferenced ==
    (Fetched /\ ReferencedIds = {}) =>
        /\ Lookups = {}
        /\ result # <<>>
        /\ EnrichedOrders = FetchedOrders

\* C7: a successful enrichment returns the same orders in the same order,
\* each with the same line items in the same order; every field an order or
\* a line item had keeps its value, and a line item gains product and image only.
C7_EnrichmentOnlyAddsFields ==
    Enriched =>
        /\ Len(EnrichedOrders) = Len(FetchedOrders)
        /\ \A k \in DOMAIN FetchedOrders :
              LET before == FetchedOrders[k]
                  after == EnrichedOrders[k]
              IN  /\ DOMAIN after = DOMAIN before
                  /\ after.id = before.id
                  /\ Len(after.order_details) = Len(before.order_details)
                  /\ \A j \in DOMAIN before.order_details :
                        /\ DOMAIN after.order_details[j] =
                              DOMAIN before.order_details[j] \cup {"product", "image"}
                        /\ \A f \in DOMAIN before.order_details[j] :
                              after.order_details[j][f] = before.order_details[j][f]

\* Two orders enriched, one of them with line items of different products.
C7_Witness ==
    /\ Enriched
    /\ Len(FetchedOrders) = 2
    /\ \E k \in DOMAIN FetchedOrders :
          /\ Len(FetchedOrders[k].order_details) >= 2
          /\ FetchedOrders[k].order_details[1].product_id #
                FetchedOrders[k].order_details[2].product_id

\* The number of entries of the lookup argument equal to p, and the number
\* of line items that reference p.
TimesPassed(p) == Cardinality({i \in DOMAIN calls[2].args : calls[2].args[i] = p})
TimesReferenced(p) ==
    Cardinality({pl \in Places :
                    FetchedOrders[pl[1]].order_details[pl[2]].product_id = p})

C9_MissingProductFailsHard ==
    (LookedUp /\ ~(ReferencedIds \subseteq CatalogIds(2))) =>
        /\ raised.kind = "KeyError"
        /\ result = <<>>
        /\ response = [status |-> "server_fault", error |-> "UNEXPECTED_ERROR"]

\* A get-order whose second line item references a product the catalog lacks.
C9_Witness ==
    /\ LookedUp
    /\ request.op = "get_order"
    /\ Len(FetchedOrders[1].order_details) >= 2
    /\ FetchedOrders[1].order_details[1].product_id \in CatalogIds(2)
    /\ FetchedOrders[1].order_details[2].product_id \notin CatalogIds(2)
    /\ response.status = "server_fault"

\* The line items of the enriched orders, each beside the one it was filled from.
ItemProductIsCatalogs(item) ==
    \E prod \in CatalogProducts(2) : prod.id = item.product_id /\ item.product = prod

\* C10 as stated: every enriched line item carries the catalog's product of
\* its product_id and an image that is the image root, the product_id and
\* ".jpg" put together.
C10_ImageIsRootIdSuffix ==
    Enriched =>
        \A pl \in Places :
            LET item == EnrichedOrders[pl[1]].order_details[pl[2]]
            IN  /\ ItemProductIsCatalogs(item)
                /\ item.image = <<image_root, item.product_id, ".jpg">>

\* C10: every enriched line item carries the catalog's product of its
\* product_id and an image that is the image root, "/", the product_id and
\* ".jpg" put together (so it ends with the product_id followed by ".jpg").
C10_ImageIsRootSlashIdSuffix ==
    Enriched =>
        \A pl \in Places :
            LET item == EnrichedOrders[pl[1]].order_details[pl[2]]
            IN  /\ ItemProductIsCatalogs(item)
                /\ item.image = <<image_root>> \o <<"/">> \o <<item.product_id>> \o <<".jpg">>
                /\ SubSeq(item.image, Len(item.image) - 1, Len(item.image)) =
                      <<item.product_id, ".jpg">>

\* Line items of two different products enriched from a catalog answer of both.
C10_Witness ==
    /\ Enriched
    /\ \E pl, pm \in Places :
          /\ EnrichedOrders[pl[1]].order_details[pl[2]].product.id = "p1"
          /\ EnrichedOrders[pm[1]].order_details[pm[2]].product.id = "p2"
          /\ EnrichedOrders[pm[1]].order_details[pm[2]].image[3] = "p2"

====
